---- MODULE Spec2Model ----
(***************************************************************************)
(* Model of src/bot.py: the slash-command handler generate_and_send, the   *)
(* job client (create_video_job, poll_video_until_ready,                   *)
(* fetch_video_bytes), the asset locator extract_video_url and the         *)
(* background task _track_and_post.                                        *)
(*                                                                         *)
(* Every coroutine is cut at its await points.  The remote service and the *)
(* chat platform are the environment: each HTTP response, each network     *)
(* delay and each accept/reject answer of the chat platform is chosen with *)
(* \E from the finite sets below.                                          *)
(*                                                                         *)
(* Specifications: Spec, one invocation with every answer open; SpecConc,  *)
(* all invocations interleaved at their awaits; SpecPoll, Spec with        *)
(* timeout_sec of the poll loop drawn from Timeouts; FairSpec, SpecPoll    *)
(* with the event loop running every task that can go on; SpecLocate,      *)
(* extract_video_url on every payload of AllShapes.                        *)
(***************************************************************************)
EXTENDS Integers, Sequences, FiniteSets, TLC

----------------------------------------------------------------------------
(* Bounds of the model *)

\* number of slash-command invocations the model holds
NReq == 2

\* timeout_sec of the background poll (900 in the source), scaled down
TimeoutSec == 6

\* longest time one HTTP round trip of a poll may take, in seconds
MaxNetDelay == 2

\* a length, in characters, a message to the channel is held against
DiagLimit == 2000

(* Program constants *)

\* poll_every of the background poll
PollEvery == 3

\* len(candidates) in fetch_video_bytes
NumCandidates == 2

ALLOWED_CHANNEL_NAME == "sora"

\* len() of the error message of a failed job without {prompt} and {data}:
\* "Video job failed: " inside "(warning sign) Error while generating ``: ``"
FailedTextLen == 50

Reqs == 1..NReq

----------------------------------------------------------------------------
(* Values *)

\* Python's None, and a dict key that is missing (dict.get gives None too)
None == "<None>"
Absent == "<absent>"
\* a JSON number, a non-dict truthy value, a dict, a non-empty list
Num == "<num>"
NotDict == "<notdict>"
Dict == "<dict>"
NotList == "<notlist>"
EmptyList == "<empty>"
List == "<list>"

UrlA == "https://x/y.mp4"
UrlB == "https://cdn/top.mp4"
UrlC == "https://cdn/gen0.mp4"

\* the values isinstance(v, str) holds of
Strings == {"", UrlA, UrlB, UrlC}

\* interaction.channel: None, or a channel with a name
NoChannel == "<no channel>"
Channels == {NoChannel, "sora", "general"}

\* an exception in flight; type "" is "no exception"; dataLen is the length
\* of the {data} formatted into its text, 0 where there is none
Exc(type, what, n, text) ==
    [type |-> type, what |-> what, n |-> n, text |-> text, dataLen |-> 0]
NoExc == Exc("", "", 0, "")

\* what a call hands back: a value, or an exception
Return(v) == [exc |-> NoExc, val |-> v]
Raise(e) == [exc |-> e, val |-> None]

\* a message handed to the chat platform
Msg(kind, what, n, text, file) ==
    [kind |-> kind, what |-> what, n |-> n, text |-> text, file |-> file, dataLen |-> 0]

----------------------------------------------------------------------------
(* Answers of the remote service *)

\* the answer to POST /v1/videos: HTTP status, body text, and the body as JSON
CreateResponses ==
    [status : {200, 302, 400, 500},
     text   : {"quota exceeded"},
     json   : BOOLEAN,
     id     : {Absent, "", "job_1"}]

\* terminal payload shapes: what final_payload.get gives for each key
Shape(assets, video, url, gens, first, gurl) ==
    [assets |-> assets, video |-> video, url |-> url,
     generations |-> gens, first |-> first, gurl |-> gurl]

EmptyShape == Shape(Absent, Absent, Absent, Absent, Absent, Absent)

Shapes ==
    { Shape(Dict, UrlA, Absent, Absent, Absent, Absent),
      Shape(Dict, UrlA, UrlB, List, Dict, UrlC),
      Shape(Dict, "", UrlB, Absent, Absent, Absent),
      Shape(Dict, Num, UrlB, Absent, Absent, Absent),
      Shape(NotDict, Absent, Num, List, Dict, UrlC),
      Shape(None, Absent, Absent, EmptyList, Absent, Absent),
      Shape(Dict, Absent, Absent, List, NotDict, Absent),
      Shape(Absent, Absent, Num, NotList, Absent, Absent),
      EmptyShape }

\* every payload the keys "assets", "url" and "generations" tell apart: each
\* key missing, of the wrong type, or of the type looked for
AllShapes ==
    { Shape(a, v, u, g, f, gu) :
        a \in {Absent, None, NotDict, Dict}, v \in {Absent, Num, "", UrlA},
        u \in {Absent, Num, "", UrlB}, g \in {Absent, NotList, EmptyList, List},
        f \in {Absent, NotDict, Dict}, gu \in {Absent, Num, "", UrlC} }

SuccessStatuses == {"succeeded", "completed", "ready"}
FailureStatuses == {"failed", "error", "cancelled"}
OtherStatuses == {"queued", "in_progress", None}

\* len(str(data)) of a status answer: {'status': 'failed'} and no more, or
\* an answer with details that fills more than a message may hold
SmallData == 20
DataLens == {SmallData, DiagLimit + 1}

\* the answer to GET /v1/videos/{id}: an HTTP answer, or the request raising
PollResp(kind, code, status, shape) ==
    [kind |-> kind, code |-> code, status |-> status, payload |-> shape,
     dataLen |-> SmallData]

NoResp == PollResp("", 0, None, EmptyShape)

PollResponses ==
    { PollResp("http", 200, s, p) : s \in SuccessStatuses, p \in Shapes }
    \cup { [PollResp("http", 200, s, EmptyShape) EXCEPT !.dataLen = n] :
                s \in FailureStatuses, n \in DataLens }
    \cup { PollResp("http", 200, s, EmptyShape) : s \in OtherStatuses }
    \cup { PollResp("http", 500, None, EmptyShape),
           PollResp("neterr", 0, None, EmptyShape),
           PollResp("nettimeout", 0, None, EmptyShape) }

NetDelays == 0..MaxNetDelay

\* Content-Type headers, and which of them contain "mp4" / "webm"
ContentTypes == {"", "video/mp4", "video/webm", "video/webm; codecs=mp4a", "application/octet-stream"}
HasMp4 == {"video/mp4", "video/webm; codecs=mp4a"}
HasWebm == {"video/webm", "video/webm; codecs=mp4a"}

\* len(data) of a downloaded video, in bytes
Sizes == {49999, 1270000, 30000000}

\* the answer to a content GET: an HTTP answer (text is the body resp.text()
\* gives for it), or the request raising
FetchResp(kind, code, ctype, size) ==
    [kind |-> kind, code |-> code, ctype |-> ctype, size |-> size, text |-> ""]

\* the answers that are not a 200: status and body
OtherAnswers ==
    { [code |-> 206, text |-> "partial content"],
      [code |-> 404, text |-> "no such video"],
      [code |-> 500, text |-> "try again later"] }

FetchResponses ==
    { FetchResp("http", 200, c, n) : c \in ContentTypes, n \in Sizes }
    \cup { [FetchResp("http", a.code, "", 0) EXCEPT !.text = a.text] : a \in OtherAnswers }
    \cup { FetchResp("neterr", 0, "", 0), FetchResp("nettimeout", 0, "", 0) }

\* asyncio.TimeoutError is the builtin TimeoutError from Python 3.11 on and a
\* class of its own before: both builds run this source
NetTimeoutTypes == {"TimeoutError", "asyncio.TimeoutError"}

----------------------------------------------------------------------------
(* Pure functions of the source *)

\* bool(v) of a value that is None or a string
Truthy(v) == v \notin {None, Absent, ""}

\* create_video_job with `>` for `>=` in the status test
create_video_job_gt(resp) ==
    IF resp.status > 400
    THEN Raise(Exc("RuntimeError", "OpenAI create video error", resp.status, resp.text))
    ELSE IF ~resp.json
    THEN Raise(Exc("ContentTypeError", "resp.json()", resp.status, resp.text))
    ELSE IF ~Truthy(resp.id)
    THEN Raise(Exc("RuntimeError", "OpenAI did not return an id", 0, resp.text))
    ELSE Return(resp.id)

\* create_video_job: from the answer of the create call to the id or the raise
create_video_job(resp) ==
    IF resp.status >= 400
    THEN Raise(Exc("RuntimeError", "OpenAI create video error", resp.status, resp.text))
    ELSE IF ~resp.json
    THEN Raise(Exc("ContentTypeError", "resp.json()", resp.status, resp.text))
    ELSE IF ~Truthy(resp.id)
    THEN Raise(Exc("RuntimeError", "OpenAI did not return an id", 0, resp.text))
    ELSE Return(resp.id)

\* poll_video_until_ready with "cancelled" left out of the failure statuses
poll_video_until_ready_cancelled(resp, late, ttype) ==
    IF resp.kind = "neterr"
    THEN Raise(Exc("ClientError", "connection error", 0, ""))
    ELSE IF resp.kind = "nettimeout"
    THEN Raise(Exc(ttype, "request timed out", 0, ""))
    ELSE IF resp.code >= 400
    THEN Raise(Exc("RuntimeError", "OpenAI poll error", resp.code, "poll body"))
    ELSE IF resp.status \in {"succeeded", "completed", "ready"}
    THEN Return("data")
    ELSE IF resp.status \in {"failed", "error"}
    THEN Raise([Exc("RuntimeError", "Video job failed", 0, resp.status)
                   EXCEPT !.dataLen = resp.dataLen])
    ELSE IF late
    THEN Raise(Exc("TimeoutError", "Timed out waiting for video generation.", 0, ""))
    ELSE Return("sleep")

\* poll_video_until_ready taking an answer without "status" for a failed job
poll_video_until_ready_missingFails(resp, late, ttype) ==
    IF resp.kind = "neterr"
    THEN Raise(Exc("ClientError", "connection error", 0, ""))
    ELSE IF resp.kind = "nettimeout"
    THEN Raise(Exc(ttype, "request timed out", 0, ""))
    ELSE IF resp.code >= 400
    THEN Raise(Exc("RuntimeError", "OpenAI poll error", resp.code, "poll body"))
    ELSE IF resp.status \in {"succeeded", "completed", "ready"}
    THEN Return("data")
    ELSE IF resp.status \in {"failed", "error", "cancelled", None}
    THEN Raise([Exc("RuntimeError", "Video job failed", 0, resp.status)
                   EXCEPT !.dataLen = resp.dataLen])
    ELSE IF late
    THEN Raise(Exc("TimeoutError", "Timed out waiting for video generation.", 0, ""))
    ELSE Return("sleep")

\* poll_video_until_ready with the deadline tested before the status is read
poll_video_until_ready_deadlineFirst(resp, late, ttype) ==
    IF resp.kind = "neterr"
    THEN Raise(Exc("ClientError", "connection error", 0, ""))
    ELSE IF resp.kind = "nettimeout"
    THEN Raise(Exc(ttype, "request timed out", 0, ""))
    ELSE IF resp.code >= 400
    THEN Raise(Exc("RuntimeError", "OpenAI poll error", resp.code, "poll body"))
    ELSE IF late
    THEN Raise(Exc("TimeoutError", "Timed out waiting for video generation.", 0, ""))
    ELSE IF resp.status \in {"succeeded", "completed", "ready"}
    THEN Return("data")
    ELSE IF resp.status \in {"failed", "error", "cancelled"}
    THEN Raise([Exc("RuntimeError", "Video job failed", 0, resp.status)
                   EXCEPT !.dataLen = resp.dataLen])
    ELSE Return("sleep")

\* one pass of the while loop of poll_video_until_ready on the answer resp;
\* late is time() > stop read after the answer, ttype the class a network
\* timeout is raised as.  val "data" is `return data`, val "sleep" reaches
\* the asyncio.sleep at the end of the pass.
poll_video_until_ready(resp, late, ttype) ==
    IF resp.kind = "neterr"
    THEN Raise(Exc("ClientError", "connection error", 0, ""))
    ELSE IF resp.kind = "nettimeout"
    THEN Raise(Exc(ttype, "request timed out", 0, ""))
    ELSE IF resp.code >= 400
    THEN Raise(Exc("RuntimeError", "OpenAI poll error", resp.code, "poll body"))
    ELSE IF resp.status \in {"succeeded", "completed", "ready"}
    THEN Return("data")
    ELSE IF resp.status \in {"failed", "error", "cancelled"}
    THEN Raise([Exc("RuntimeError", "Video job failed", 0, resp.status)
                   EXCEPT !.dataLen = resp.dataLen])
    ELSE IF late
    THEN Raise(Exc("TimeoutError", "Timed out waiting for video generation.", 0, ""))
    ELSE Return("sleep")

\* extract_video_url with the top-level url tried before assets.video
extract_video_url_urlFirst(p) ==
    LET assetsIsDict == p.assets \in {Absent, None, Dict}
        vid == IF p.assets = Dict THEN p.video ELSE Absent
    IN  IF p.url \in Strings THEN p.url
        ELSE IF assetsIsDict /\ vid \in Strings THEN vid
        ELSE IF p.generations = List /\ p.first = Dict /\ p.gurl \in Strings THEN p.gurl
        ELSE None

\* extract_video_url without its isinstance tests: .get called on whatever
\* "assets" and generations[0] hold
extract_video_url_noGuard(p) ==
    LET vid == IF p.assets = Dict THEN p.video ELSE Absent
    IN  IF p.assets = NotDict THEN "<AttributeError>"
        ELSE IF vid \in Strings THEN vid
        ELSE IF p.url \in Strings THEN p.url
        ELSE IF p.generations = List /\ p.first = NotDict THEN "<AttributeError>"
        ELSE IF p.generations = List /\ p.gurl \in Strings THEN p.gurl
        ELSE None

\* extract_video_url: the three places a URL is looked for, in order
extract_video_url(p) ==
    LET assetsIsDict == p.assets \in {Absent, None, Dict}
        vid == IF p.assets = Dict THEN p.video ELSE Absent
    IN  IF assetsIsDict /\ vid \in Strings THEN vid
        ELSE IF p.url \in Strings THEN p.url
        ELSE IF p.generations = List /\ p.first = Dict /\ p.gurl \in Strings THEN p.gurl
        ELSE None

\* the file extension fetch_video_bytes infers from the Content-Type header
infer_ext(ctype) ==
    IF ctype \in HasMp4 \/ ctype = "" THEN ".mp4"
    ELSE IF ctype \in HasWebm THEN ".webm"
    ELSE ".mp4"

\* the size cut to a tenth instead of rounded to it
FmtMB_floor(n) == n \div 100000

\* f"{len(data) / 1_000_000:.1f}" as a number of tenths of a megabyte: the
\* nearest tenth (the sizes of the model are not halfway between two tenths)
FmtMB(n) == (n + 50000) \div 100000

\* the channel check without the comparison of the name
ChannelRejected_noName(ch) == ch = NoChannel

\* the condition under which generate_and_send turns the request away
ChannelRejected(ch) == ch = NoChannel \/ ch # ALLOWED_CHANNEL_NAME

\* the texts the source sends
NoticeMsg == Msg("notice", "Please use this command in #", 0, ALLOWED_CHANNEL_NAME, "")
DeferMsg == Msg("defer", "thinking", 0, "", "")
CreateFailedMsg(e) == Msg("createFailed", e.what, e.n, e.text, "")
AckMsg(id) == Msg("ack", "job started", 0, id, "")
UrlMsg(url) == Msg("url", "result", 0, url, "")
UploadedMsg(id, x) == Msg("uploaded", "result (uploaded)", 0, "", id \o x)
TooLargeMsg(n) == Msg("tooLarge", "couldn't upload the file", FmtMB(n), "", "")
TimeoutMsg(id) == Msg("timeout", "Still generating", 0, id, "")
ErrorMsg(e) == [Msg("error", e.what, e.n, e.text, "") EXCEPT !.dataLen = e.dataLen]

\* one call of the chat platform: which operation, the message, accepted or
\* not, and whether it was sent with ephemeral=True
Sent(op, msg, ephemeral, ok) ==
    [op |-> op, msg |-> msg, ephemeral |-> ephemeral, ok |-> ok]

----------------------------------------------------------------------------
(* State *)

VARIABLES
    live,        \* the invocations this run holds
    timeout_sec, \* timeout_sec of poll_video_until_ready, in seconds
    hpc,         \* where generate_and_send stands, per invocation
    channel,     \* interaction.channel of the invocation
    createResp,  \* the answer the create call got
    herr,        \* the exception caught at `except Exception as e` in the handler
    jobId,       \* job_id, "" before create_video_job returned
    sink,        \* the calls made on the chat platform, in order
    tpc,         \* where _track_and_post stands
    elapsed,     \* time() minus the time `stop` was computed at
    polls,       \* status GETs issued
    answered,    \* status GETs whose answer was handled
    sleeps,      \* asyncio.sleep(poll_every) calls finished
    lastResp,    \* the answer of the latest status GET
    final,       \* the payload poll_video_until_ready returned
    videoUrl,    \* video_url
    texc,        \* the exception caught in _track_and_post
    cand,        \* index of the candidate fetch_video_bytes is at
    lastError,   \* last_error: status and body of the last failed candidate
    contentResps,\* the content GETs made: the candidate asked and its answer
    fetchCalls,  \* content GETs issued
    data,        \* len(data)
    ext,         \* ext
    escaped,     \* the task ended with an exception nobody caught
    session      \* the aiohttp.ClientSession objects made, by identity

vars == <<live, timeout_sec, hpc, channel, createResp, herr, jobId, sink, tpc, elapsed, polls,
          answered, sleeps, lastResp, final, videoUrl, texc, cand, lastError,
          contentResps, fetchCalls, data, ext, escaped, session>>

\* what a run is started with and never changes
call == <<live, timeout_sec>>
handlerVars == <<hpc, channel, createResp, herr, jobId>>
pollVars == <<elapsed, polls, answered, sleeps, lastResp, final, videoUrl>>
fetchVars == <<cand, lastError, contentResps, fetchCalls, data, ext>>

\* last_error = None
NoLastError == [status |-> 0, text |-> ""]

NoCreateResp == [status |-> 0, text |-> "", json |-> FALSE, id |-> Absent]

\* the coroutines that make a session: the handler and the task of a request
Handler(r) == <<"handler", r>>
Task(r) == <<"task", r>>

\* a ClientSession: whether it is open, who made it, who sent requests over it
SessionIds == 1..(2 * NReq)
NoSession == [state |-> "unborn", owner |-> <<"", 0>>, users |-> {}]

\* the timeout_sec poll_video_until_ready is called with: the one
\* _track_and_post passes, and none at all
Timeouts == {0, TimeoutSec}

\* poll_video_until_ready has not returned
NoFinal == final = [r \in Reqs |-> NoResp]

InitFields ==
    /\ hpc = [r \in Reqs |-> "idle"]
    /\ channel = [r \in Reqs |-> NoChannel]
    /\ createResp = [r \in Reqs |-> NoCreateResp]
    /\ herr = [r \in Reqs |-> NoExc]
    /\ jobId = [r \in Reqs |-> ""]
    /\ sink = [r \in Reqs |-> <<>>]
    /\ tpc = [r \in Reqs |-> "none"]
    /\ elapsed = [r \in Reqs |-> 0]
    /\ polls = [r \in Reqs |-> 0]
    /\ answered = [r \in Reqs |-> 0]
    /\ sleeps = [r \in Reqs |-> 0]
    /\ lastResp = [r \in Reqs |-> NoResp]
    /\ videoUrl = [r \in Reqs |-> None]
    /\ texc = [r \in Reqs |-> NoExc]
    /\ cand = [r \in Reqs |-> 0]
    /\ lastError = [r \in Reqs |-> NoLastError]
    /\ contentResps = [r \in Reqs |-> <<>>]
    /\ fetchCalls = [r \in Reqs |-> 0]
    /\ data = [r \in Reqs |-> 0]
    /\ ext = [r \in Reqs |-> ""]
    /\ escaped = [r \in Reqs |-> FALSE]
    /\ session = [i \in SessionIds |-> NoSession]

\* one invocation, every answer of the environment open
Init == live = {1} /\ timeout_sec = TimeoutSec /\ NoFinal /\ InitFields

\* poll_video_until_ready under each timeout_sec of Timeouts
InitPoll == live = {1} /\ timeout_sec \in Timeouts /\ NoFinal /\ InitFields

\* every invocation, their handlers and tasks interleaved at the awaits, the
\* environment answering from the short lists below
InitConc == live = Reqs /\ timeout_sec = TimeoutSec /\ NoFinal /\ InitFields

\* extract_video_url on its own: no invocation, and a payload of AllShapes
\* in the hands of the caller
InitLocate ==
    /\ live = {}
    /\ timeout_sec = TimeoutSec
    /\ \E p \in AllShapes :
          final = [r \in Reqs |-> IF r = 1 THEN PollResp("http", 200, "succeeded", p)
                                  ELSE NoResp]
    /\ InitFields

Conc == Cardinality(live) > 1

CreateAnswers ==
    IF Conc
    THEN { [status |-> 200, text |-> "ok", json |-> TRUE, id |-> "job_1"],
           [status |-> 500, text |-> "quota exceeded", json |-> TRUE, id |-> Absent] }
    ELSE CreateResponses

PollAnswers ==
    IF Conc
    THEN { PollResp("http", 200, "queued", EmptyShape),
           PollResp("http", 200, "succeeded", Shape(Dict, UrlA, Absent, Absent, Absent, Absent)),
           PollResp("http", 200, "succeeded", EmptyShape),
           PollResp("http", 200, "failed", EmptyShape),
           PollResp("http", 500, None, EmptyShape) }
    ELSE PollResponses

PollDelays == IF Conc THEN {0} ELSE NetDelays

FetchAnswers ==
    IF Conc
    THEN { FetchResp("http", 200, "video/mp4", 30000000),
           [FetchResp("http", 404, "", 0) EXCEPT !.text = "no such video"] }
    ELSE FetchResponses

----------------------------------------------------------------------------
(* Sessions *)

\* aiohttp.ClientSession(): an object that is none of those made before
NewSession ==
    CHOOSE i \in SessionIds :
        /\ session[i].state = "unborn"
        /\ \A j \in 1..(i - 1) : session[j].state # "unborn"

\* the sessions the coroutine c made, and the one its `async with` names
SessionsOf(c) == { i \in SessionIds : session[i].owner = c }
SessionOf(c) == CHOOSE i \in SessionsOf(c) : TRUE

\* async with aiohttp.ClientSession() as s: entered
OpenSession(c) ==
    session' = [session EXCEPT ![NewSession] =
                   [state |-> "open", owner |-> c, users |-> {}]]

\* the end of the `async with` block of c, however it is left
CloseSession(c) ==
    session' = [session EXCEPT ![SessionOf(c)].state = "closed"]

\* a request of c over the session its `async with` names
Request(c) ==
    session' = [session EXCEPT ![SessionOf(c)].users = @ \cup {c}]

\* the `async with` of the task left open when an exception leaves the task
ExitSession_leak(r) ==
    IF tpc'[r] = "done" /\ ~escaped'[r] THEN CloseSession(Task(r)) ELSE UNCHANGED session

\* the task leaves its `async with` exactly when it ends: by return, by the
\* end of an except clause, or by an exception raised inside one
ExitSession(r) ==
    IF tpc'[r] = "done" THEN CloseSession(Task(r)) ELSE UNCHANGED session

----------------------------------------------------------------------------
(* generate_and_send *)

Say(r, op, msg, ok) ==
    sink' = [sink EXCEPT ![r] = Append(@, Sent(op, msg, FALSE, ok))]

SayEphemeral(r, op, msg, ok) ==
    sink' = [sink EXCEPT ![r] = Append(@, Sent(op, msg, TRUE, ok))]

\* the call arrives: the channel check, then the ephemeral notice and return,
\* or response.defer(thinking=True)
Invoke(r) ==
    /\ r \in live
    /\ hpc[r] = "idle"
    /\ \E ch \in Channels, ok \in BOOLEAN :
        /\ channel' = [channel EXCEPT ![r] = ch]
        /\ IF ChannelRejected(ch)
           THEN /\ SayEphemeral(r, "response.send_message", NoticeMsg, ok)
                /\ hpc' = [hpc EXCEPT ![r] = IF ok THEN "returned" ELSE "raised"]
           ELSE /\ Say(r, "response.defer", DeferMsg, ok)
                /\ hpc' = [hpc EXCEPT ![r] = IF ok THEN "deferred" ELSE "raised"]
    /\ UNCHANGED <<call, createResp, herr, jobId, tpc, pollVars, texc, fetchVars, escaped,
                   session>>

\* the create call in its own session, and the try around it
Create(r) ==
    /\ hpc[r] = "deferred"
    /\ \E resp \in CreateAnswers :
        LET res == create_video_job(resp) IN
        /\ createResp' = [createResp EXCEPT ![r] = resp]
        /\ herr' = [herr EXCEPT ![r] = res.exc]
        /\ IF res.exc # NoExc
           THEN /\ hpc' = [hpc EXCEPT ![r] = "except"]
                /\ UNCHANGED jobId
           ELSE /\ hpc' = [hpc EXCEPT ![r] = "created"]
                /\ jobId' = [jobId EXCEPT ![r] = res.val]
    /\ UNCHANGED <<call, channel, sink, tpc, pollVars, texc, fetchVars, escaped>>
    /\ session' = [session EXCEPT ![NewSession] =
                      [state |-> IF hpc'[r] = "except" THEN "open" ELSE "closed",
                       owner |-> Handler(r), users |-> {Handler(r)}]]

\* the failure reported without the `return` after it
ReportCreateFailure_noReturn(r) ==
    /\ hpc[r] = "except"
    /\ \E ok \in BOOLEAN :
        /\ Say(r, "followup.send", CreateFailedMsg(herr[r]), ok)
        /\ hpc' = [hpc EXCEPT ![r] = IF ok THEN "created" ELSE "raised"]
    /\ UNCHANGED <<call, channel, createResp, herr, jobId, tpc, pollVars, texc,
                   fetchVars, escaped>>
    /\ CloseSession(Handler(r))

\* except Exception as e: the follow-up that reports it, and return
ReportCreateFailure(r) ==
    /\ hpc[r] = "except"
    /\ \E ok \in BOOLEAN :
        /\ Say(r, "followup.send", CreateFailedMsg(herr[r]), ok)
        /\ hpc' = [hpc EXCEPT ![r] = IF ok THEN "returned" ELSE "raised"]
    /\ UNCHANGED <<call, channel, createResp, herr, jobId, tpc, pollVars, texc,
                   fetchVars, escaped>>
    /\ CloseSession(Handler(r))

\* the task created before the acknowledgment went out
Acknowledge_spawnFirst(r) ==
    /\ hpc[r] = "created"
    /\ \E ok \in BOOLEAN :
        /\ Say(r, "followup.send", AckMsg(jobId[r]), ok)
        /\ hpc' = [hpc EXCEPT ![r] = IF ok THEN "returned" ELSE "raised"]
        /\ tpc' = [tpc EXCEPT ![r] = "spawned"]
    /\ UNCHANGED <<call, channel, createResp, herr, jobId, pollVars, texc, fetchVars,
                   escaped, session>>

\* the acknowledgment, then asyncio.create_task and the end of the handler
Acknowledge(r) ==
    /\ hpc[r] = "created"
    /\ \E ok \in BOOLEAN :
        /\ Say(r, "followup.send", AckMsg(jobId[r]), ok)
        /\ hpc' = [hpc EXCEPT ![r] = IF ok THEN "returned" ELSE "raised"]
        /\ tpc' = [tpc EXCEPT ![r] = IF ok THEN "spawned" ELSE "none"]
    /\ UNCHANGED <<call, channel, createResp, herr, jobId, pollVars, texc, fetchVars,
                   escaped, session>>

----------------------------------------------------------------------------
(* _track_and_post *)

\* the try with `except TimeoutError` as its only clause: any other exception
\* leaves the task
ExceptClause_onlyTimeout(e) == IF e.type = "TimeoutError" THEN "exceptTimeout" ELSE "done"

\* where the task goes with the exception e raised inside the try
ExceptClause(e) == IF e.type = "TimeoutError" THEN "exceptTimeout" ELSE "exceptError"

HTTPException == Exc("HTTPException", "discord.HTTPException", 0, "")

\* the task starts: it enters poll_video_until_ready, which computes stop
Start(r) ==
    /\ tpc[r] = "spawned"
    /\ tpc' = [tpc EXCEPT ![r] = "poll"]
    /\ elapsed' = [elapsed EXCEPT ![r] = 0]
    /\ UNCHANGED <<call, handlerVars, sink, polls, answered, sleeps, lastResp, final,
                   videoUrl, texc, fetchVars, escaped>>
    /\ OpenSession(Task(r))

\* a status GET issued without waiting for the sleep to finish
PollSend_noAwait(r) ==
    /\ tpc[r] \in {"poll", "sleep"}
    /\ polls' = [polls EXCEPT ![r] = @ + 1]
    /\ tpc' = [tpc EXCEPT ![r] = "pollWait"]
    /\ UNCHANGED <<call, handlerVars, sink, elapsed, answered, sleeps, lastResp, final,
                   videoUrl, texc, fetchVars, escaped>>
    /\ Request(Task(r))

\* session.get(url) of the status
PollSend(r) ==
    /\ tpc[r] = "poll"
    /\ polls' = [polls EXCEPT ![r] = @ + 1]
    /\ tpc' = [tpc EXCEPT ![r] = "pollWait"]
    /\ UNCHANGED <<call, handlerVars, sink, elapsed, answered, sleeps, lastResp, final,
                   videoUrl, texc, fetchVars, escaped>>
    /\ Request(Task(r))

\* the branch on video_url turned around
AfterPoll_inverted(p) == IF Truthy(extract_video_url(p)) THEN "fetch" ELSE "sendUrl"

\* where the task goes after poll_video_until_ready returned the payload p
AfterPoll(p) == IF Truthy(extract_video_url(p)) THEN "sendUrl" ELSE "fetch"

\* the answer of the status GET, the rest of the pass of the loop and, when
\* the loop returns, extract_video_url and the branch on video_url
PollRecv(r) ==
    /\ tpc[r] = "pollWait"
    /\ \E resp \in PollAnswers, d \in PollDelays, ttype \in NetTimeoutTypes :
        LET now == elapsed[r] + d
            res == poll_video_until_ready(resp, now > timeout_sec, ttype)
        IN
        /\ elapsed' = [elapsed EXCEPT ![r] = now]
        /\ answered' = [answered EXCEPT ![r] = @ + 1]
        /\ lastResp' = [lastResp EXCEPT ![r] = resp]
        /\ IF res.exc # NoExc
           THEN /\ texc' = [texc EXCEPT ![r] = res.exc]
                /\ tpc' = [tpc EXCEPT ![r] = ExceptClause(res.exc)]
                /\ UNCHANGED <<final, videoUrl, cand>>
           ELSE IF res.val = "data"
           THEN /\ final' = [final EXCEPT ![r] = resp]
                /\ videoUrl' = [videoUrl EXCEPT ![r] = extract_video_url(resp.payload)]
                /\ tpc' = [tpc EXCEPT ![r] = AfterPoll(resp.payload)]
                /\ cand' = [cand EXCEPT ![r] = 1]
                /\ UNCHANGED texc
           ELSE /\ tpc' = [tpc EXCEPT ![r] = "sleep"]
                /\ UNCHANGED <<final, videoUrl, cand, texc>>
    /\ UNCHANGED <<call, handlerVars, sink, polls, sleeps, lastError, contentResps,
                   fetchCalls, data,
                   ext, escaped, session>>

\* a sleep during which the clock of the event loop stands still
Sleep_noClock(r) ==
    /\ tpc[r] = "sleep"
    /\ sleeps' = [sleeps EXCEPT ![r] = @ + 1]
    /\ tpc' = [tpc EXCEPT ![r] = "poll"]
    /\ UNCHANGED <<call, handlerVars, sink, elapsed, polls, answered, lastResp, final,
                   videoUrl, texc, fetchVars, escaped, session>>

\* await asyncio.sleep(poll_every), and back to the top of the loop
Sleep(r) ==
    /\ tpc[r] = "sleep"
    /\ elapsed' = [elapsed EXCEPT ![r] = @ + PollEvery]
    /\ sleeps' = [sleeps EXCEPT ![r] = @ + 1]
    /\ tpc' = [tpc EXCEPT ![r] = "poll"]
    /\ UNCHANGED <<call, handlerVars, sink, polls, answered, lastResp, final, videoUrl,
                   texc, fetchVars, escaped, session>>

\* the link posted without the `return` after it
SendUrl_noReturn(r) ==
    /\ tpc[r] = "sendUrl"
    /\ \E ok \in BOOLEAN :
        /\ Say(r, "channel.send", UrlMsg(videoUrl[r]), ok)
        /\ tpc' = [tpc EXCEPT ![r] = IF ok THEN "fetch" ELSE "exceptError"]
        /\ texc' = [texc EXCEPT ![r] = IF ok THEN @ ELSE HTTPException]
    /\ UNCHANGED <<call, handlerVars, pollVars, fetchVars, escaped>>
    /\ ExitSession(r)

\* if video_url: channel.send(the link) and return
SendUrl(r) ==
    /\ tpc[r] = "sendUrl"
    /\ \E ok \in BOOLEAN :
        /\ Say(r, "channel.send", UrlMsg(videoUrl[r]), ok)
        /\ tpc' = [tpc EXCEPT ![r] = IF ok THEN "done" ELSE "exceptError"]
        /\ texc' = [texc EXCEPT ![r] = IF ok THEN @ ELSE HTTPException]
    /\ UNCHANGED <<call, handlerVars, pollVars, fetchVars, escaped>>
    /\ ExitSession(r)

\* the status test of fetch_video_bytes taking any 2xx
FetchOk_2xx(resp) == resp.code \in 200..299

\* if resp.status == 200
FetchOk(resp) == resp.code = 200

\* fetch_video_bytes: the GET of candidate cand, and what its answer leads to
Fetch(r) ==
    /\ tpc[r] = "fetch"
    /\ fetchCalls' = [fetchCalls EXCEPT ![r] = @ + 1]
    /\ \E resp \in FetchAnswers, ttype \in NetTimeoutTypes :
        /\ contentResps' = [contentResps EXCEPT ![r] =
                                Append(@, [cand |-> cand[r], resp |-> resp])]
        /\ IF resp.kind = "neterr"
           THEN /\ texc' = [texc EXCEPT ![r] = Exc("ClientError", "connection error", 0, "")]
                /\ tpc' = [tpc EXCEPT ![r] = "exceptError"]
                /\ UNCHANGED <<cand, lastError, data, ext>>
           ELSE IF resp.kind = "nettimeout"
           THEN /\ texc' = [texc EXCEPT ![r] = Exc(ttype, "request timed out", 0, "")]
                /\ tpc' = [tpc EXCEPT ![r] = ExceptClause(Exc(ttype, "", 0, ""))]
                /\ UNCHANGED <<cand, lastError, data, ext>>
           ELSE IF FetchOk(resp)
           THEN /\ data' = [data EXCEPT ![r] = resp.size]
                /\ ext' = [ext EXCEPT ![r] = infer_ext(resp.ctype)]
                /\ tpc' = [tpc EXCEPT ![r] = "upload"]
                /\ UNCHANGED <<cand, lastError, texc>>
           ELSE /\ lastError' = [lastError EXCEPT ![r] =
                                    [status |-> resp.code, text |-> resp.text]]
                /\ IF cand[r] < NumCandidates
                   THEN /\ cand' = [cand EXCEPT ![r] = @ + 1]
                        /\ UNCHANGED <<tpc, texc>>
                   ELSE /\ texc' = [texc EXCEPT ![r] =
                               Exc("RuntimeError", "Unable to fetch video content",
                                   lastError'[r].status, lastError'[r].text)]
                        /\ tpc' = [tpc EXCEPT ![r] = "exceptError"]
                        /\ UNCHANGED cand
                /\ UNCHANGED <<data, ext>>
    /\ UNCHANGED <<call, handlerVars, sink, pollVars, escaped>>
    /\ Request(Task(r))

\* channel.send(content, file=...) inside the inner try
Upload(r) ==
    /\ tpc[r] = "upload"
    /\ \E ok \in BOOLEAN :
        /\ Say(r, "channel.send", UploadedMsg(jobId[r], ext[r]), ok)
        /\ tpc' = [tpc EXCEPT ![r] = IF ok THEN "done" ELSE "exceptHTTP"]
    /\ UNCHANGED <<call, handlerVars, pollVars, texc, fetchVars, escaped>>
    /\ ExitSession(r)

\* except discord.HTTPException: the message with the size hint
UploadRejected(r) ==
    /\ tpc[r] = "exceptHTTP"
    /\ \E ok \in BOOLEAN :
        /\ Say(r, "channel.send", TooLargeMsg(data[r]), ok)
        /\ tpc' = [tpc EXCEPT ![r] = IF ok THEN "done" ELSE "exceptError"]
        /\ texc' = [texc EXCEPT ![r] = IF ok THEN @ ELSE HTTPException]
    /\ UNCHANGED <<call, handlerVars, pollVars, fetchVars, escaped>>
    /\ ExitSession(r)

\* the timeout handler keeping its word ("I'll keep checking"): back to the loop
ExceptTimeout_resume(r) ==
    /\ tpc[r] = "exceptTimeout"
    /\ \E ok \in BOOLEAN :
        /\ Say(r, "channel.send", TimeoutMsg(jobId[r]), ok)
        /\ escaped' = [escaped EXCEPT ![r] = ~ok]
        /\ tpc' = [tpc EXCEPT ![r] = IF ok THEN "poll" ELSE "done"]
    /\ UNCHANGED <<call, handlerVars, pollVars, texc, fetchVars>>
    /\ ExitSession(r)

\* except TimeoutError: the "still generating" message; the task ends
ExceptTimeout(r) ==
    /\ tpc[r] = "exceptTimeout"
    /\ \E ok \in BOOLEAN :
        /\ Say(r, "channel.send", TimeoutMsg(jobId[r]), ok)
        /\ escaped' = [escaped EXCEPT ![r] = ~ok]
    /\ tpc' = [tpc EXCEPT ![r] = "done"]
    /\ UNCHANGED <<call, handlerVars, pollVars, texc, fetchVars>>
    /\ ExitSession(r)

\* except Exception as e: the error message; the task ends
ExceptError(r) ==
    /\ tpc[r] = "exceptError"
    /\ \E ok \in BOOLEAN :
        /\ Say(r, "channel.send", ErrorMsg(texc[r]), ok)
        /\ escaped' = [escaped EXCEPT ![r] = ~ok]
    /\ tpc' = [tpc EXCEPT ![r] = "done"]
    /\ UNCHANGED <<call, handlerVars, pollVars, texc, fetchVars>>
    /\ ExitSession(r)

----------------------------------------------------------------------------

Next ==
    \E r \in Reqs :
        \/ Invoke(r)
        \/ Create(r)
        \/ ReportCreateFailure(r)
        \/ Acknowledge(r)
        \/ Start(r)
        \/ PollSend(r)
        \/ PollRecv(r)
        \/ Sleep(r)
        \/ SendUrl(r)
        \/ Fetch(r)
        \/ Upload(r)
        \/ UploadRejected(r)
        \/ ExceptTimeout(r)
        \/ ExceptError(r)

Spec == Init /\ [][Next]_vars

\* video_url = extract_video_url(final), and the branch on it
Locate(r) ==
    /\ tpc[r] = "none"
    /\ final[r] # NoResp
    /\ videoUrl' = [videoUrl EXCEPT ![r] = extract_video_url(final[r].payload)]
    /\ tpc' = [tpc EXCEPT ![r] = AfterPoll(final[r].payload)]
    /\ UNCHANGED <<call, handlerVars, sink, elapsed, polls, answered, sleeps, lastResp,
                   final, texc, fetchVars, escaped, session>>

NextLocate == \E r \in Reqs : Locate(r)

SpecLocate == InitLocate /\ [][NextLocate]_vars

SpecConc == InitConc /\ [][Next]_vars

SpecPoll == InitPoll /\ [][Next]_vars

\* a step of the task of r
TaskStep(r) ==
    \/ Start(r)
    \/ PollSend(r)
    \/ PollRecv(r)
    \/ Sleep(r)
    \/ SendUrl(r)
    \/ Fetch(r)
    \/ Upload(r)
    \/ UploadRejected(r)
    \/ ExceptTimeout(r)
    \/ ExceptError(r)

\* the event loop runs a task that can go on: a created task is started, a
\* finished sleep resumes it, and every request and every post is answered
FairSpec == SpecPoll /\ \A r \in Reqs : WF_vars(TaskStep(r))

----------------------------------------------------------------------------
(* What the properties read off the state *)

\* the channel.send calls of the task of r, and those the channel accepted
ChannelSends(r) == SelectSeq(sink[r], LAMBDA e : e.op = "channel.send")
ChannelPosts(r) == SelectSeq(sink[r], LAMBDA e : e.op = "channel.send" /\ e.ok)
\* the attachment posts among them
Uploads(r) == SelectSeq(sink[r], LAMBDA e : e.msg.file # "")
\* the "still generating" posts the channel accepted
TimeoutPosts(r) == SelectSeq(sink[r], LAMBDA e : e.msg.kind = "timeout" /\ e.ok)

\* the latest status GET was answered with this kind of status
Answered(r) == polls[r] >= 1 /\ answered[r] = polls[r]
SawStatus(r, S) ==
    /\ Answered(r)
    /\ lastResp[r].kind = "http"
    /\ lastResp[r].code < 400
    /\ lastResp[r].status \in S
SawTerminal(r) == SawStatus(r, SuccessStatuses \cup FailureStatuses)
SawNonTerminal(r) ==
    /\ Answered(r)
    /\ lastResp[r].kind = "http"
    /\ lastResp[r].code < 400
    /\ lastResp[r].status \notin SuccessStatuses \cup FailureStatuses

InLoop(r) == tpc[r] \in {"poll", "pollWait", "sleep"}

----------------------------------------------------------------------------
(* C1 *)

C2_NoPollAfterTerminal ==
    [][\A r \in Reqs : SawTerminal(r) => polls'[r] = polls[r]]_vars

\* a job cancelled at its third poll, and the task at its end
C2_Witness ==
    \E r \in Reqs :
        /\ SawStatus(r, {"cancelled"})
        /\ polls[r] = 3
        /\ tpc[r] = "done"

(* C3 *)

\* the latest poll was answered non-terminal after the time budget ran out
\* (in "poll" a sleep has moved the clock on since the answer)
BudgetExpired(r) == SawNonTerminal(r) /\ tpc[r] # "poll" /\ elapsed[r] > timeout_sec

\* C3: when every poll was answered non-terminal until the budget ran out,
\* the loop ends there, the task posts the timeout message once (the channel
\* accepting it) and nothing else; after a timeout message no poll is issued
\* and the task is over; every poll but the first of a job follows a sleep
\* of the one loop.
C3_TimeoutOnce ==
    \A r \in Reqs :
        /\ BudgetExpired(r) => tpc[r] \in {"exceptTimeout", "done"}
        /\ (BudgetExpired(r) /\ tpc[r] = "done") =>
              /\ Len(ChannelSends(r)) = 1
              /\ ChannelSends(r)[1].msg = TimeoutMsg(jobId[r])
              /\ ~escaped[r] => Len(TimeoutPosts(r)) = 1
        /\ Len(TimeoutPosts(r)) <= 1
        /\ (\E i \in 1..Len(sink[r]) : sink[r][i].msg.kind = "timeout") =>
              /\ tpc[r] = "done"
              /\ Answered(r)
        /\ polls[r] <= sleeps[r] + 1

C3_Witness ==
    \E r \in Reqs :
        /\ BudgetExpired(r)
        /\ tpc[r] = "done"
        /\ sleeps[r] >= 2
        /\ Len(TimeoutPosts(r)) = 1

(* C4 *)

\* the create call was answered, and with a failure: 4xx/5xx, or no id
CreateFailed(r) ==
    /\ createResp[r] # NoCreateResp
    /\ \/ createResp[r].status >= 400
       \/ ~createResp[r].json
       \/ createResp[r].id \in {Absent, ""}

\* C4: when the creation fails, the handler sends one follow-up that reports
\* the error (for a 4xx/5xx its status and body) and ends; no task is
\* spawned: no poll, no content GET and no channel message for the request.
C4_CreateFailureAborts ==
    \A r \in Reqs :
        CreateFailed(r) =>
            /\ hpc[r] \in {"except", "returned", "raised"}
            /\ jobId[r] = ""
            /\ tpc[r] = "none"
            /\ polls[r] = 0
            /\ fetchCalls[r] = 0
            /\ Len(ChannelSends(r)) = 0
            /\ sink[r][1] = Sent("response.defer", DeferMsg, FALSE, TRUE)
            /\ hpc[r] = "except" => Len(sink[r]) = 1
            /\ hpc[r] # "except" =>
                  /\ Len(sink[r]) = 2
                  /\ sink[r][2].op = "followup.send"
                  /\ sink[r][2].msg.kind = "createFailed"
                  /\ sink[r][2].ok = (hpc[r] = "returned")
                  /\ createResp[r].status >= 400 =>
                        /\ sink[r][2].msg.n = createResp[r].status
                        /\ sink[r][2].msg.text = createResp[r].text

C4_Witness ==
    \E r \in Reqs :
        /\ createResp[r].status = 500
        /\ hpc[r] = "returned"
        /\ sink[r] = << Sent("response.defer", DeferMsg, FALSE, TRUE),
                        Sent("followup.send",
                             Msg("createFailed", "OpenAI create video error", 500,
                                 "quota exceeded", ""), FALSE, TRUE) >>

(* C5 *)

\* C5 as stated: an id is returned only on a 2xx answer that carries an id;
\* every other status is a create error (the body being JSON or not; the
\* formula reads it on JSON bodies); a 2xx answer without an id is a
\* malformed-response error.
C5_Original ==
    \A r \in Reqs :
        LET resp == createResp[r]
            ok2xx == resp.status \in 200..299
        IN  /\ jobId[r] # "" => (ok2xx /\ resp.json /\ resp.id = jobId[r])
            /\ (resp # NoCreateResp /\ resp.json /\ ~ok2xx) =>
                  /\ jobId[r] = ""
                  /\ herr[r].what = "OpenAI create video error"
            /\ (ok2xx /\ resp.json /\ resp.id \in {Absent, ""}) =>
                  /\ jobId[r] = ""
                  /\ herr[r].what = "OpenAI did not return an id"

\* C5 (amended): the status test is `>= 400`: an id is returned only on an
\* answer with a status below 400 that carries a non-empty id, and it is that
\* id; every status from 400 up is a create error carrying status and body;
\* an answer below 400 whose JSON has no id is a malformed-response error.
C5_CreateJob ==
    \A r \in Reqs :
        LET resp == createResp[r]
            below400 == resp.status < 400
        IN  /\ jobId[r] # "" =>
                  (resp # NoCreateResp /\ below400 /\ resp.json /\ resp.id = jobId[r])
            /\ (resp # NoCreateResp /\ ~below400) =>
                  /\ jobId[r] = ""
                  /\ herr[r] = Exc("RuntimeError", "OpenAI create video error",
                                   resp.status, resp.text)
            /\ (resp # NoCreateResp /\ below400 /\ resp.json /\ resp.id \in {Absent, ""}) =>
                  /\ jobId[r] = ""
                  /\ herr[r].what = "OpenAI did not return an id"

C5_Witness ==
    \E r \in Reqs :
        /\ createResp[r].status = 200
        /\ createResp[r].id = "job_1"
        /\ jobId[r] = "job_1"
        /\ hpc[r] = "created"

(* C6 *)

\* C6: a request from another channel, or from no channel, gets the ephemeral
\* notice as the only thing the handler does: no create call, no
\* acknowledgment, no task, no poll.
C6_WrongChannelRejected ==
    \A r \in Reqs :
        (hpc[r] # "idle" /\ channel[r] # "sora") =>
            /\ hpc[r] \in {"returned", "raised"}
            /\ sink[r] = << Sent("response.send_message", NoticeMsg, TRUE,
                                 hpc[r] = "returned") >>
            /\ createResp[r] = NoCreateResp
            /\ jobId[r] = ""
            /\ tpc[r] = "none"
            /\ polls[r] = 0
            /\ fetchCalls[r] = 0

C6_Witness ==
    \E r \in Reqs :
        /\ channel[r] = "general"
        /\ hpc[r] = "returned"
        /\ Len(sink[r]) = 1
        /\ sink[r][1].ephemeral
        /\ sink[r][1].ok

(* C7 *)

\* the loop returned a payload whose assets is a dict with a video in S
HasAssetVideo(r, S) ==
    /\ final[r] # NoResp
    /\ final[r].payload.assets = Dict
    /\ final[r].payload.video \in S

\* the link u goes out as the first and only thing: nothing is fetched, the
\* first channel.send carries u, and once the channel took it that message
\* is all the channel holds of the task
UrlDelivered(r, u) ==
    /\ videoUrl[r] = u
    /\ tpc[r] # "fetch"
    /\ fetchCalls[r] = 0
    /\ Len(Uploads(r)) = 0
    /\ Len(ChannelSends(r)) >= 1 => ChannelSends(r)[1].msg = UrlMsg(u)
    /\ (tpc[r] = "done" /\ Len(ChannelSends(r)) >= 1 /\ ChannelSends(r)[1].ok) =>
          ChannelPosts(r) = << Sent("channel.send", UrlMsg(u), FALSE, TRUE) >>

\* C7 as stated: whenever assets.video of the terminal payload is a string,
\* that string is what the locator returns, what the one result message
\* carries, and no content is fetched.
C7_Original ==
    \A r \in Reqs :
        HasAssetVideo(r, Strings) => UrlDelivered(r, final[r].payload.video)

\* C7 (amended): the locator returns assets.video whenever it is a string;
\* when the string is not empty the result message carries exactly it and no
\* content is fetched; the empty string is taken as "no URL" by the task: no
\* link message is sent for it.
C7_AssetUrl ==
    \A r \in Reqs :
        /\ HasAssetVideo(r, Strings) => videoUrl[r] = final[r].payload.video
        /\ HasAssetVideo(r, Strings \ {""}) => UrlDelivered(r, final[r].payload.video)
        /\ HasAssetVideo(r, {""}) =>
              /\ tpc[r] # "sendUrl"
              /\ \A i \in 1..Len(sink[r]) : sink[r][i].msg.kind # "url"

\* queued, queued, succeeded with assets.video: the link is in the channel
C7_Witness ==
    \E r \in Reqs :
        /\ HasAssetVideo(r, {UrlA})
        /\ final[r].payload.url = UrlB
        /\ polls[r] = 3
        /\ tpc[r] = "done"
        /\ fetchCalls[r] = 0
        /\ ChannelPosts(r) = << Sent("channel.send", UrlMsg(UrlA), FALSE, TRUE) >>

(* C8 *)

\* content was asked for, or is about to be
FetchCalled(r) == fetchCalls[r] > 0 \/ tpc[r] = "fetch"

\* C8 as stated: content is fetched if and only if the loop ended on a
\* success status and the locator returned no URL (None).
C8_Original ==
    \A r \in Reqs :
        FetchCalled(r) <=> (SawStatus(r, SuccessStatuses) /\ videoUrl[r] = None)

\* C8 (amended): content is fetched if and only if the loop ended on a
\* success status and the locator returned None or the empty string; never
\* after a failure status, a poll error or a timeout, and never when the
\* locator returned a non-empty string.
C8_FetchIffNoUrl ==
    \A r \in Reqs :
        /\ FetchCalled(r) <=> (SawStatus(r, SuccessStatuses) /\ videoUrl[r] \in {None, ""})
        /\ ~SawStatus(r, SuccessStatuses) => fetchCalls[r] = 0
        /\ videoUrl[r] \in Strings \ {""} => fetchCalls[r] = 0

C8_Witness ==
    \E r \in Reqs :
        /\ SawStatus(r, {"completed"})
        /\ videoUrl[r] = None
        /\ fetchCalls[r] = 1
        /\ tpc[r] = "upload"

(* C9 *)

\* t tenths of a megabyte is n bytes / 1,000,000 to one decimal
NearestTenth(t, n) == 100000 * t - 50000 <= n /\ n < 100000 * t + 50000

\* C9: the attachment is posted at most once; when the channel turns it down
\* the task goes to the handler of discord.HTTPException, whose one
\* channel.send carries the size as bytes / 1,000,000 to one decimal (300
\* tenths, "30.0", for 30,000,000 bytes) and no file; the channel accepting
\* it, the task ends without an exception and that message is all the
\* channel holds.
C9_UploadRejected ==
    \A r \in Reqs :
        /\ Len(Uploads(r)) <= 1
        /\ (Len(Uploads(r)) = 1 /\ ~Uploads(r)[1].ok) =>
              LET cs == ChannelSends(r) IN
              /\ cs[1] = Uploads(r)[1]
              /\ (tpc[r] = "exceptHTTP") <=> (Len(cs) = 1)
              /\ Len(cs) >= 2 =>
                    /\ cs[2].msg.kind = "tooLarge"
                    /\ cs[2].msg.file = ""
                    /\ NearestTenth(cs[2].msg.n, data[r])
                    /\ data[r] = 30000000 => cs[2].msg.n = 300
                    /\ cs[2].ok =>
                          /\ tpc[r] = "done"
                          /\ ~escaped[r]
                          /\ ChannelPosts(r) = << cs[2] >>

\* 30 MB fetched, the attachment turned down, the size message in the channel
C9_Witness ==
    \E r \in Reqs :
        /\ data[r] = 30000000
        /\ tpc[r] = "done"
        /\ Len(Uploads(r)) = 1
        /\ ~Uploads(r)[1].ok
        /\ Len(ChannelPosts(r)) = 1
        /\ ChannelPosts(r)[1].msg.kind = "tooLarge"
        /\ ChannelPosts(r)[1].msg.n = 300

(* C10 *)

\* C10: a status GET is issued only once create_video_job has returned the
\* id; at most one status GET is in flight, and only while the task waits
\* for its answer; every GET but the first follows a finished sleep, a sleep
\* follows a handled answer and lasts the whole interval; a channel.send of
\* the task comes only after the last GET was answered and the loop left.
C10_Ordering ==
    \A r \in Reqs :
        /\ polls[r] >= 1 =>
              /\ createResp[r] # NoCreateResp
              /\ jobId[r] # ""
              /\ jobId[r] = createResp[r].id
        /\ polls[r] - answered[r] = (IF tpc[r] = "pollWait" THEN 1 ELSE 0)
        /\ polls[r] <= sleeps[r] + 1
        /\ sleeps[r] <= answered[r]
        /\ elapsed[r] >= PollEvery * sleeps[r]
        /\ Len(ChannelSends(r)) >= 1 =>
              /\ Answered(r)
              /\ ~InLoop(r)

C10_Witness ==
    \E r \in Reqs :
        /\ polls[r] = 3
        /\ answered[r] = 3
        /\ sleeps[r] = 2
        /\ SawStatus(r, {"ready"})
        /\ tpc[r] = "done"
        /\ Len(ChannelPosts(r)) = 1

(* C11 *)

\* the acknowledgment of r, accepted by the chat platform, is in the log
Acked(r) ==
    \E i \in 1..Len(sink[r]) :
        sink[r][i] = Sent("followup.send", AckMsg(jobId[r]), FALSE, TRUE)

\* C11: the task of a job exists, and a status GET of the job is issued,
\* only once the acknowledgment went out and the handler returned; every step
\* of the handler is taken while no task of the request exists, so its
\* return waits for no poll, no content GET and no result message; the task
\* polls on after the return.
C11_AckThenBackground ==
    /\ [](\A r \in Reqs :
            /\ tpc[r] # "none" => (hpc[r] = "returned" /\ Acked(r))
            /\ polls[r] >= 1 => (hpc[r] = "returned" /\ Acked(r))
            /\ (hpc[r] = "returned" /\ tpc[r] = "spawned") =>
                  (polls[r] = 0 /\ fetchCalls[r] = 0 /\ Len(ChannelSends(r)) = 0))
    /\ [][\A r \in Reqs :
            /\ hpc'[r] # hpc[r] =>
                  (tpc[r] = "none" /\ polls[r] = 0 /\ fetchCalls[r] = 0)
            /\ hpc[r] = "returned" => hpc'[r] = "returned"]_vars

\* the handler has returned and the task is at its third status GET
C11_Witness ==
    \E r \in Reqs :
        /\ hpc[r] = "returned"
        /\ Acked(r)
        /\ polls[r] = 3
        /\ tpc[r] = "pollWait"

(* C12 *)

\* what poll_video_until_ready and fetch_video_bytes raise
PollFetchErrors ==
    {"connection error", "request timed out", "OpenAI poll error", "Video job failed",
     "Timed out waiting for video generation.", "Unable to fetch video content"}

\* everything the run holds of request q
ReqState(q) ==
    <<hpc[q], channel[q], createResp[q], herr[q], jobId[q], sink[q], tpc[q], elapsed[q],
      polls[q], answered[q], sleeps[q], lastResp[q], final[q], videoUrl[q], texc[q],
      cand[q], lastError[q], contentResps[q], fetchCalls[q], data[q], ext[q],
      escaped[q],
      { <<i, session[i]>> : i \in SessionsOf(Handler(q)) \cup SessionsOf(Task(q)) }>>

\* C12 as stated, its part on one job: an exception raised by the polling or
\* the content fetch of a job is caught inside the job's task and turned
\* into a message to the user, and no exception leaves the task.
C12_Original ==
    \A r \in Reqs :
        texc[r].what \in PollFetchErrors =>
            /\ tpc[r] \in {"exceptTimeout", "exceptError", "done"}
            /\ ~escaped[r]
            /\ tpc[r] = "done" => Len(ChannelPosts(r)) = 1

\* C12 (amended): an exception raised by the polling or the content fetch of a job is
\* caught by the try of that job's task: the task goes to an except clause,
\* whose one channel.send carries the error (or the "still generating"
\* text), and ends there; the only exception that leaves a task is the one
\* channel.send raises inside the except clause; and the step that raises
\* or handles the error of one job changes nothing of any other request,
\* in every interleaving.
C12_ErrorsContained ==
    /\ [](\A r \in Reqs :
            /\ texc[r].what \in PollFetchErrors =>
                  /\ tpc[r] \in {"exceptTimeout", "exceptError", "done"}
                  /\ tpc[r] # "done" => Len(ChannelSends(r)) = 0
                  /\ tpc[r] = "done" =>
                        /\ Len(ChannelSends(r)) = 1
                        /\ ChannelSends(r)[1].msg =
                              (IF texc[r].type = "TimeoutError"
                               THEN TimeoutMsg(jobId[r]) ELSE ErrorMsg(texc[r]))
                        /\ escaped[r] <=> ~ChannelSends(r)[1].ok
            /\ escaped[r] =>
                  /\ tpc[r] = "done"
                  /\ texc[r] # NoExc
                  /\ ~sink[r][Len(sink[r])].ok)
    /\ [][\A r, q \in Reqs :
            (/\ r # q
             /\ \/ texc'[r] # texc[r]
                \/ tpc[r] \in {"exceptTimeout", "exceptError"} /\ tpc'[r] # tpc[r])
            => ReqState(q)' = ReqState(q)]_vars

\* two jobs: the first failed at its poll and its task ended with the error
\* message in the channel; the second went on and delivered its link
C12_Witness ==
    \E r, q \in Reqs :
        /\ r # q
        /\ texc[r].what = "OpenAI poll error"
        /\ tpc[r] = "done"
        /\ ~escaped[r]
        /\ ChannelPosts(r) = << Sent("channel.send", ErrorMsg(texc[r]), FALSE, TRUE) >>
        /\ tpc[q] = "done"
        /\ texc[q] = NoExc
        /\ Len(ChannelPosts(q)) = 1
        /\ ChannelPosts(q)[1].msg.kind = "url"

(* C13 *)

\* C13 as stated: the failure message of a job that ended on a failure
\* status holds the payload cut to a bounded length: whatever the size of the
\* payload, the message is no longer than one fixed number of characters.
C13_Original ==
    \A r \in Reqs :
        \A i \in 1..Len(sink[r]) :
            (sink[r][i].msg.kind = "error" /\ sink[r][i].msg.what = "Video job failed") =>
                FailedTextLen + sink[r][i].msg.dataLen <= DiagLimit

(* C14 *)

\* the "still generating" text was handed to channel.send
TimeoutSaid(r) == \E i \in 1..Len(sink[r]) : sink[r][i].msg.kind = "timeout"

\* what the job client raises on a failure: a failure status, an HTTP error
\* of a poll, the content not fetched, a network error of a poll or a fetch
TrueFailures ==
    {"Video job failed", "OpenAI poll error", "Unable to fetch video content",
     "connection error", "request timed out"}

\* C14 as stated: the timeout message is posted only when the time budget
\* of the poll loop ran out while the last status seen was non-terminal;
\* every true failure (failure status, poll HTTP error, content-fetch
\* failure, network error during poll or fetch, delivery error) gets a
\* failure message and never the timeout message.
C14_Original ==
    \A r \in Reqs :
        /\ TimeoutSaid(r) =>
              /\ SawNonTerminal(r)
              /\ elapsed[r] > timeout_sec
              /\ texc[r].what = "Timed out waiting for video generation."
        /\ (texc[r].what \in TrueFailures \cup {HTTPException.what}) =>
              /\ ~TimeoutSaid(r)
              /\ tpc[r] # "exceptTimeout"
              /\ tpc[r] = "done" =>
                    ChannelSends(r)[Len(ChannelSends(r))].msg = ErrorMsg(texc[r])

(* C15 *)

\* C15: extract_video_url returns assets.video when "assets" is a dict and
\* its "video" a string; else the top-level "url" when it is a string; else
\* the "url" of the first entry of "generations" when that is a non-empty
\* list whose first entry is a dict with a string "url"; else None.  It
\* raises for no payload: its result is always a string or None.
C15_Locator ==
    \A r \in Reqs :
        (final[r] # NoResp /\ tpc[r] # "none") =>
            LET p == final[r].payload
                v == videoUrl[r]
                hasVid == p.assets = Dict /\ p.video \in Strings
                hasUrl == p.url \in Strings
                hasGen == p.generations = List /\ p.first = Dict /\ p.gurl \in Strings
            IN  /\ v \in Strings \cup {None}
                /\ hasVid => v = p.video
                /\ (~hasVid /\ hasUrl) => v = p.url
                /\ (~hasVid /\ ~hasUrl /\ hasGen) => v = p.gurl
                /\ (~hasVid /\ ~hasUrl /\ ~hasGen) => v = None

\* "assets" is not a dict, "url" is a number: the URL of generations[0]
C15_Witness ==
    \E r \in Reqs :
        /\ final[r] # NoResp
        /\ final[r].payload = Shape(NotDict, UrlA, Num, List, Dict, UrlC)
        /\ videoUrl[r] = UrlC
        /\ tpc[r] = "sendUrl"

(* C16 *)

\* the content GETs of r so far, and the answer of the latest
Tried(r) == Len(contentResps[r])
LastContent(r) == contentResps[r][Tried(r)].resp

\* the candidates are asked in their order, one GET each, and a GET is made
\* only when every candidate before it gave an HTTP answer not in Success
InOrder(r, Success) ==
    /\ Tried(r) <= NumCandidates
    /\ fetchCalls[r] = Tried(r)
    /\ \A i \in 1..Tried(r) :
          /\ contentResps[r][i].cand = i
          /\ i < Tried(r) =>
                /\ contentResps[r][i].resp.kind = "http"
                /\ contentResps[r][i].resp.code \notin Success

\* the body of the first candidate that answered in Success is returned, and
\* fetch_video_bytes raises its own error only when every candidate gave an
\* answer not in Success, with the status and body of the last in it
FirstSuccessWins(r, Success) ==
    /\ (Tried(r) >= 1 /\ LastContent(r).kind = "http" /\ LastContent(r).code \in Success) =>
          /\ tpc[r] \in {"upload", "exceptHTTP", "exceptError", "done"}
          /\ data[r] = LastContent(r).size
          /\ texc[r].what # "Unable to fetch video content"
    /\ texc[r].what = "Unable to fetch video content" <=>
          /\ Tried(r) = NumCandidates
          /\ LastContent(r).kind = "http"
          /\ LastContent(r).code \notin Success
    /\ texc[r].what = "Unable to fetch video content" =>
          /\ texc[r].n = LastContent(r).code
          /\ texc[r].text = LastContent(r).text
          /\ data[r] = 0

\* C16 as stated: the candidates are tried in order, one at a time; the body
\* of the first that answers with a 2xx is returned and no later one is
\* tried; the fetch fails only when every candidate answered with a status
\* that is not a 2xx, and the error carries status and body of the last.
C16_Original ==
    \A r \in Reqs : InOrder(r, 200..299) /\ FirstSuccessWins(r, 200..299)

\* C16 (amended): the candidates are tried in order, one at a time; success
\* is the status 200 and no other: the body of the first candidate that
\* answers 200 is returned and no later one is tried; any other status, a
\* 206 too, sends the fetch to the next candidate, and when the last
\* candidate answered so the fetch fails with the status and body of that
\* last answer; a request that raises (connection error, timeout) ends the
\* fetch at once with that exception, the candidates after it untried.
C16_FetchOrder ==
    \A r \in Reqs :
        /\ InOrder(r, {200})
        /\ FirstSuccessWins(r, {200})
        /\ (Tried(r) >= 1 /\ LastContent(r).kind \in {"neterr", "nettimeout"}) =>
              /\ tpc[r] \in {"exceptTimeout", "exceptError", "done"}
              /\ texc[r].what \in {"connection error", "request timed out"}
              /\ data[r] = 0

\* 404 from the first candidate, 500 from the second: the error of the 500
C16_Witness ==
    \E r \in Reqs :
        /\ Tried(r) = NumCandidates
        /\ contentResps[r][1].resp.code = 404
        /\ LastContent(r).code = 500
        /\ LastContent(r).text = "try again later"
        /\ texc[r] = Exc("RuntimeError", "Unable to fetch video content", 500,
                         "try again later")
        /\ tpc[r] = "exceptError"

(* C17 *)

\* C17: the task of a job makes one session of its own when it starts; over
\* a session only the coroutine that made it sends requests, so no two tasks
\* (and no task and handler) share one; the session of a task is open while
\* the task runs and closed once the task has ended, whichever way: result
\* posted, failure or timeout reported, or an exception raised while
\* posting; the session of the create call is closed before the
\* acknowledgment is sent, and whenever the handler has ended.
C17_Sessions ==
    /\ \A i \in SessionIds : session[i].users \subseteq {session[i].owner}
    /\ \A r \in Reqs :
          /\ Cardinality(SessionsOf(Task(r))) =
                (IF tpc[r] \in {"none", "spawned"} THEN 0 ELSE 1)
          /\ tpc[r] \notin {"none", "spawned", "done"} =>
                session[SessionOf(Task(r))].state = "open"
          /\ polls[r] >= 1 => session[SessionOf(Task(r))].users = {Task(r)}
          /\ tpc[r] = "done" => session[SessionOf(Task(r))].state = "closed"
          /\ Cardinality(SessionsOf(Handler(r))) =
                (IF createResp[r] = NoCreateResp THEN 0 ELSE 1)
          /\ hpc[r] = "except" => session[SessionOf(Handler(r))].state = "open"
          /\ (createResp[r] # NoCreateResp /\ hpc[r] # "except") =>
                session[SessionOf(Handler(r))].state = "closed"
          /\ (\E i \in 1..Len(sink[r]) : sink[r][i].msg.kind = "ack") =>
                session[SessionOf(Handler(r))].state = "closed"

\* two jobs at once: one task ended by the exception of a rejected post, the
\* other is still polling; four sessions, the ended task's closed
C17_Witness ==
    \E r, q \in Reqs :
        /\ r # q
        /\ tpc[r] = "done"
        /\ escaped[r]
        /\ session[SessionOf(Task(r))].state = "closed"
        /\ tpc[q] = "pollWait"
        /\ session[SessionOf(Task(q))].state = "open"
        /\ SessionOf(Task(q)) # SessionOf(Task(r))
        /\ Cardinality({ i \in SessionIds : session[i].state = "closed" }) = 3

(* C18 *)

\* the TimeoutError poll_video_until_ready raises itself
TimedOut(r) == texc[r].what = "Timed out waiting for video generation."

\* C18: in each pass of the loop the status is classified before the
\* deadline is tested.  (a) Whatever timeout_sec is, zero too, the loop is
\* left only after a status GET was issued and answered.  (b) A terminal
\* status ends the loop as a success (the payload returned) or as a failure
\* (the failure raised), never as the loop's timeout, also when its answer
\* came after the deadline.  (c) The loop raises its timeout only when the
\* latest answer held a non-terminal status and the time passed is strictly
\* more than timeout_sec; with exactly timeout_sec passed it sleeps and
\* polls again.
C18_StatusBeforeDeadline ==
    \A r \in Reqs :
        /\ (tpc[r] \notin {"none", "spawned"} /\ ~InLoop(r)) =>
              (polls[r] >= 1 /\ Answered(r))
        /\ SawStatus(r, SuccessStatuses) =>
              (final[r] = lastResp[r] /\ ~TimedOut(r) /\ ~InLoop(r))
        /\ SawStatus(r, FailureStatuses) =>
              (texc[r].what = "Video job failed" /\ final[r] = NoResp /\ ~InLoop(r))
        /\ TimedOut(r) =>
              (SawNonTerminal(r) /\ elapsed[r] > timeout_sec /\ final[r] = NoResp)
        /\ BudgetExpired(r) => TimedOut(r)
        /\ tpc[r] = "sleep" => (SawNonTerminal(r) /\ elapsed[r] <= timeout_sec)

\* timeout_sec = 0: the one status GET is answered "ready" after the
\* deadline, and the link of the payload is in the channel
C18_Witness ==
    \E r \in Reqs :
        /\ timeout_sec = 0
        /\ polls[r] = 1
        /\ elapsed[r] > timeout_sec
        /\ SawStatus(r, {"ready"})
        /\ final[r] = lastResp[r]
        /\ tpc[r] = "done"
        /\ Len(ChannelPosts(r)) = 1
        /\ ChannelPosts(r)[1].msg.kind = "url"

(* C19 *)

\* the most status GETs a loop with this timeout_sec can issue
MaxPolls == timeout_sec \div PollEvery + 2

\* C19: an answer whose status is missing, or is in neither set, is
\* non-terminal: it gives no payload, no failure, no content GET and no
\* result or error message; the loop sleeps poll_every after it, once, and
\* polls again, or, the deadline passed, raises its timeout, reported by
\* the "still generating" message alone; every sleep is poll_every long;
\* a job that answers only such statuses is in its timeout by the time the
\* last status GET the budget leaves room for has been answered.
C19_UnknownIsNonTerminal ==
    /\ [](\A r \in Reqs :
            SawStatus(r, OtherStatuses) =>
                /\ final[r] = NoResp
                /\ videoUrl[r] = None
                /\ fetchCalls[r] = 0
                /\ texc[r] = NoExc \/ TimedOut(r)
                /\ tpc[r] \in {"sleep", "poll", "exceptTimeout", "done"}
                /\ tpc[r] \in {"sleep", "poll"} <=> texc[r] = NoExc
                /\ sleeps[r] = (IF tpc[r] = "poll" THEN answered[r] ELSE answered[r] - 1)
                /\ \A i \in 1..Len(ChannelSends(r)) :
                      ChannelSends(r)[i].msg = TimeoutMsg(jobId[r])
                /\ tpc[r] = "done" => Len(ChannelSends(r)) = 1
                /\ polls[r] <= MaxPolls
                /\ polls[r] = MaxPolls => tpc[r] \in {"exceptTimeout", "done"})
    /\ [][\A r \in Reqs :
            sleeps'[r] # sleeps[r] =>
                /\ SawStatus(r, OtherStatuses)
                /\ sleeps'[r] = sleeps[r] + 1
                /\ elapsed'[r] = elapsed[r] + PollEvery
                /\ tpc'[r] = "poll"]_vars

\* three answers, the last without a status and past the deadline: the
\* "still generating" message after two sleeps
C19_Witness ==
    \E r \in Reqs :
        /\ SawStatus(r, {None})
        /\ answered[r] = 3
        /\ sleeps[r] = 2
        /\ TimedOut(r)
        /\ tpc[r] = "done"
        /\ ChannelPosts(r) = << Sent("channel.send", TimeoutMsg(jobId[r]), FALSE, TRUE) >>

(* C20 *)

\* the way the loop of r was left
LoopEnd(r) ==
    IF SawStatus(r, SuccessStatuses) THEN "success"
    ELSE IF SawStatus(r, FailureStatuses) THEN "failure"
    ELSE IF TimedOut(r) THEN "timeout"
    ELSE IF lastResp[r].kind # "http" \/ lastResp[r].code >= 400 THEN "poll error"
    ELSE "none"

\* C20: every task that was created ends.  Whatever the status GETs are
\* answered, the loop issues at most timeout_sec / poll_every + 2 of them and
\* is left by a terminal status, a poll error or its timeout; the task then
\* hands its outcome to channel.send and is over for good.
C20_TaskTerminates ==
    /\ \A r \in Reqs : (tpc[r] = "spawned") ~> (tpc[r] = "done")
    /\ [](\A r \in Reqs :
            /\ polls[r] <= MaxPolls
            /\ elapsed[r] >= PollEvery * sleeps[r]
            /\ (tpc[r] \notin {"none", "spawned"} /\ ~InLoop(r)) => LoopEnd(r) # "none"
            /\ tpc[r] = "done" =>
                  /\ Len(ChannelSends(r)) >= 1
                  /\ ~escaped[r] => Len(ChannelPosts(r)) = 1)
    /\ [][\A r \in Reqs : tpc[r] = "done" => ReqState(r)' = ReqState(r)]_vars

\* the most status GETs the budget leaves room for, every one answered
\* "queued", and the task over with its timeout reported
C20_Witness ==
    \E r \in Reqs :
        /\ timeout_sec = TimeoutSec
        /\ polls[r] = MaxPolls
        /\ sleeps[r] = MaxPolls - 1
        /\ LoopEnd(r) = "timeout"
        /\ tpc[r] = "done"
        /\ Len(ChannelPosts(r)) = 1

====
